---- MODULE Spec2Model ----
(***************************************************************************)
(* Model of core/network_scanner.py: the NetworkScanner session state      *)
(* (_running, _stop_event, _thread, hosts, progress), the two caller       *)
(* operations start_scan / stop_scan, and the scan worker thread           *)
(* (_scan_worker, _discover_hosts, _scan_ports) at the granularity of its  *)
(* reads of the shared state.                                              *)
(***************************************************************************)
EXTENDS Integers, Sequences, FiniteSets, TLC

\* ---------------------------------------------------------------- bounds
MaxCalls == 3         \* start_scan / stop_scan calls the caller thread makes
MaxSpecs == 2         \* range specs in one list handed to _parse_ip_ranges
AddrBits == 4         \* modelled width of an address (an IPv4 address has 32 bits)

Sessions == 1..MaxCalls

\* ------------------------------------------------------- range expansion
\* An ip_range string is modelled by the branch of _parse_ip_ranges it takes;
\* an address is the integer value of the address, AddrBits wide; the prefix
\* length p of a CIDR spec counts the network bits out of AddrBits.
Single(a) == [kind |-> "single", a |-> a, b |-> a]
Range(a, b) == [kind |-> "range", a |-> a, b |-> b]
Cidr(a, p) == [kind |-> "cidr", a |-> a, b |-> p]
Bad == [kind |-> "bad", a |-> 0, b |-> 0]

RECURSIVE Pow2(_)
Pow2(n) == IF n = 0 THEN 1 ELSE 2 * Pow2(n - 1)

\* the highest address: adding 1 to it raises AddressValueError
MaxAddr == Pow2(AddrBits) - 1

RECURSIVE Interval(_, _)
Interval(a, b) == IF a > b THEN <<>> ELSE <<a>> \o Interval(a + 1, b)

\* ipaddress.ip_network(s, strict=False).hosts()
NetworkHosts_AlwaysStrip(a, p) ==
    LET size == Pow2(AddrBits - p)
        net == a - (a % size)
    IN Interval(net + 1, net + size - 2)

NetworkHosts(a, p) ==
    LET size == Pow2(AddrBits - p)
        net == a - (a % size)
    IN IF size > 2 THEN Interval(net + 1, net + size - 2)
       ELSE Interval(net, net + size - 1)

RECURSIVE RangeLoop_Exclusive(_, _)
RangeLoop_Exclusive(cur, end) ==
    IF cur >= end THEN [targets |-> <<>>, error |-> FALSE]
    ELSE LET r == RangeLoop_Exclusive(cur + 1, end)
         IN [targets |-> <<cur>> \o r.targets, error |-> r.error]

RECURSIVE RangeLoop(_, _)
\* lines 206-209: while current <= end: targets.append(str(current)); current += 1
\* (the increment raises once current is the highest address)
RangeLoop(cur, end) ==
    IF cur > end THEN [targets |-> <<>>, error |-> FALSE]
    ELSE IF cur = MaxAddr THEN [targets |-> <<cur>>, error |-> TRUE]
    ELSE LET r == RangeLoop(cur + 1, end)
         IN [targets |-> <<cur>> \o r.targets, error |-> r.error]

\* the body of the for loop: what one spec appends to targets, and whether
\* the except clause at line 216 ran
ExpandOne(r) ==
    IF r.kind = "cidr" THEN [targets |-> NetworkHosts(r.a, r.b), error |-> FALSE]
    ELSE IF r.kind = "range" THEN RangeLoop(r.a, r.b)
    ELSE IF r.kind = "single" THEN [targets |-> <<r.a>>, error |-> FALSE]
    ELSE [targets |-> <<>>, error |-> TRUE]

RECURSIVE ParseTargets(_)
ParseTargets(rs) ==
    IF rs = <<>> THEN <<>> ELSE ExpandOne(Head(rs)).targets \o ParseTargets(Tail(rs))

RECURSIVE ParseErrors(_)
ParseErrors(rs) ==
    IF rs = <<>> THEN 0
    ELSE (IF ExpandOne(Head(rs)).error THEN 1 ELSE 0) + ParseErrors(Tail(rs))

\* _parse_ip_ranges: the targets and the number of _emit_error calls
_parse_ip_ranges(rs) == [targets |-> ParseTargets(rs), errors |-> ParseErrors(rs)]

\* the range specs _parse_ip_ranges is tried on
SpecPool ==
    { Single(1), Single(2), Range(1, 2), Range(2, 1), Range(MaxAddr - 1, MaxAddr),
      Cidr(5, AddrBits - 3), Cidr(5, AddrBits - 2), Cidr(5, AddrBits - 1),
      Cidr(5, AddrBits), Bad }

SpecLists == UNION { [1..n -> SpecPool] : n \in 0..MaxSpecs }

\* ----------------------------------------------------------- host prober
\* what the network does to one probe: the answer to the ICMP echo sent by
\* sr1 (or the exception it raises) and to the TCP connect on port 80
ProbeInputs ==
    [scapy : BOOLEAN, icmp : {"reply", "silent", "error"},
     tcp : {"connected", "refused", "error"}]

Alive == [is_alive |-> TRUE, has_response_time |-> TRUE]
Dead == [is_alive |-> FALSE, has_response_time |-> FALSE]

\* _ping_host_socket, lines 306-319
_ping_host_socket(in) == IF in.tcp = "connected" THEN Alive ELSE Dead

_ping_host_scapy_Fallback(in) ==
    IF in.icmp = "reply" THEN Alive
    ELSE IF in.icmp = "error" THEN _ping_host_socket(in)
    ELSE Dead

\* _ping_host_scapy, lines 290-304
_ping_host_scapy(in) == IF in.icmp = "reply" THEN Alive ELSE Dead

\* _ping_host, lines 283-288: the strategy is fixed by SCAPY_AVAILABLE
_ping_host(in) == IF in.scapy THEN _ping_host_scapy(in) ELSE _ping_host_socket(in)

\* line 85: self.use_simulation = use_simulation or not SCAPY_AVAILABLE
UseSimulation(in) == in.use_simulation \/ ~in.scapy

SimulatedPing_AlwaysTimed(in) == [is_alive |-> in.rnd, has_response_time |-> TRUE]

\* lines 263-265: is_alive = random.random() < 0.3;
\* response_time = random.uniform(1, 100) if is_alive else None
SimulatedPing(in) == [is_alive |-> in.rnd, has_response_time |-> in.rnd]

\* one iteration of _discover_hosts, lines 260-267: where the liveness comes from
ProbeResult(in) ==
    LET r == IF UseSimulation(in) THEN SimulatedPing(in) ELSE _ping_host(in)
    IN [simulated |-> UseSimulation(in), is_alive |-> r.is_alive,
        has_response_time |-> r.has_response_time]

\* what the network does to the connect of one port probe; "no_socket":
\* socket.socket() itself raises
ConnectOutcomes == {"connected", "refused", "timeout", "error", "no_socket"}

_scan_port_Retries(in) ==
    [is_open |-> in.connect = "connected",
     attempts |-> IF in.connect = "no_socket" THEN 0
                  ELSE IF in.connect = "timeout" THEN 2 ELSE 1,
     raised |-> FALSE]

\* _scan_port, lines 359-368: one connect_ex, every exception caught
_scan_port(in) ==
    [is_open |-> in.connect = "connected",
     attempts |-> IF in.connect = "no_socket" THEN 0 ELSE 1,
     raised |-> FALSE]

\* one iteration of the port loop, lines 342-347
PortResult(in) ==
    IF UseSimulation(in)
    THEN [simulated |-> TRUE, is_open |-> in.rnd, attempts |-> 0, raised |-> FALSE]
    ELSE [simulated |-> FALSE, is_open |-> _scan_port(in).is_open,
          attempts |-> _scan_port(in).attempts, raised |-> _scan_port(in).raised]

\* the constructor argument, SCAPY_AVAILABLE, the random draw and the network
\* ------------------------------------------------------ progress estimate
MaxTargets == 2     \* hosts_total, and ports_total, of the progress records drawn
Elapsed == -1..2    \* time.time() - self._start_time, in clock ticks

\* a progress record as one scan leaves it when _emit_progress_update is
\* entered, and the clock difference it reads
EtaInputs ==
    { in \in [fn : {"eta"}, hosts_total : 1..MaxTargets, hosts_scanned : 0..MaxTargets,
              ports_total : 0..MaxTargets, ports_scanned : 0..MaxTargets,
              elapsed : Elapsed] :
        /\ in.hosts_scanned <= in.hosts_total
        /\ in.ports_scanned <= in.ports_total
        /\ (in.ports_scanned > 0 => in.hosts_scanned = in.hosts_total) }

\* a / b of Python, for b # 0, as a fraction
Quotient(a, b) == [num |-> a, den |-> b]
Positive(q) == q.num * q.den > 0
Zero == [num |-> 0, den |-> 1]

\* lines 378-397: whether on_progress_update was invoked and the
\* estimated_remaining of the record; a fresh ScanProgress holds 0.0
_emit_progress_update(in) ==
    LET total_work == in.hosts_total + in.ports_total
        done_work == in.hosts_scanned + in.ports_scanned
        remaining_work == total_work - done_work
        rate == Quotient(done_work, in.elapsed)
    IN IF in.hosts_scanned > 0 /\ done_work > 0
       THEN IF in.elapsed = 0
            THEN \* line 391 raises ZeroDivisionError, caught at 396: only logged
                 [invoked |-> FALSE, estimated_remaining |-> Zero]
            ELSE [invoked |-> TRUE,
                  estimated_remaining |->
                      IF Positive(rate)
                      THEN Quotient(remaining_work * rate.den, rate.num)
                      ELSE Zero]
       ELSE [invoked |-> TRUE, estimated_remaining |-> Zero]

StepInputs ==
    [fn : {"probe"}, use_simulation : BOOLEAN, scapy : BOOLEAN, rnd : BOOLEAN,
     icmp : {"reply", "silent", "error"}, tcp : {"connected", "refused", "error"}]
    \cup
    [fn : {"port"}, use_simulation : BOOLEAN, scapy : BOOLEAN, rnd : BOOLEAN,
     connect : ConnectOutcomes]
    \cup
    EtaInputs

\* ------------------------------------------------------------ scan inputs
\* self.common_ports, the sorted LIGHT-mode list, cut to one of its entries
common_ports == <<80>>
NonePorts == <<0>>    \* ports=None

\* the (ip_ranges, ports) arguments start_scan is called with
ScanInputs ==
    { [ranges |-> <<>>, ports |-> NonePorts],
      [ranges |-> <<Bad>>, ports |-> NonePorts],
      [ranges |-> <<Single(1)>>, ports |-> <<443, 80>>],
      [ranges |-> <<Range(1, 2)>>, ports |-> NonePorts] }

\* argument lists whose specs overlap or repeat
RepeatedInputs ==
    { [ranges |-> <<Single(1), Single(1)>>, ports |-> NonePorts],
      [ranges |-> <<Range(1, 2), Single(2)>>, ports |-> NonePorts] }

\* ------------------------------------------------------------------ state
VARIABLES
    running,        \* self._running
    stopEvent,      \* self._stop_event
    thread,         \* self._thread: session of the Thread object, 0 = None
    hosts,          \* self.hosts: the dict as its items in insertion order
    progress,       \* self.progress
    workers,        \* the _scan_worker threads, by session
    nextSid,        \* sessions launched so far + 1
    callerPc,       \* "idle", or "joining" inside stop_scan's join
    ncalls,         \* calls made so far
    lastOp,         \* what the last step was
    fired,          \* callbacks invoked by the last step
    completeCount,  \* on_scan_complete invocations per session
    lastProgress,   \* the ScanProgress last handed to on_progress_update
    stopped,        \* stop_scan has stopped a scan and start_scan was not called since
    cbMode,         \* the caller's callbacks are ones that may raise
    repeated,       \* the caller's range lists name an address more than once
    cbRaised,       \* a callback invoked by the last step raised
    xin,            \* the ip_ranges list handed to _parse_ip_ranges
    xout,           \* what _parse_ip_ranges returned for xin
    pin,            \* what the network does to the probe handed to _ping_host
    pout,           \* what _ping_host returned for pin
    qin,            \* the configuration and network outcome one loop iteration meets
    qout            \* what that iteration, or a get_* query, produced

scanVars == <<running, stopEvent, thread, hosts, progress, workers, nextSid, callerPc,
              ncalls, lastOp, fired, completeCount, lastProgress, stopped, cbMode,
              repeated, cbRaised>>

pureVars == <<xin, xout, pin, pout, qin, qout>>

vars == <<scanVars, pureVars>>

NoResult == [none |-> TRUE]

\* gen identifies the ScanProgress object: the session whose start_scan built it
ScanProgress(gen, ht, pt, run) ==
    [gen |-> gen, hosts_total |-> ht, hosts_scanned |-> 0, ports_total |-> pt,
     ports_scanned |-> 0, hosts_found |-> 0, is_running |-> run]

\* what the on_progress_update callback sees of the ScanProgress it is handed
Emitted(p) ==
    [gen |-> p.gen, hosts_scanned |-> p.hosts_scanned, ports_scanned |-> p.ports_scanned]

\* oid identifies the HostInfo object: <<session, index of the target>>
HostInfo(ip, alive, oid) ==
    [ip |-> ip, is_alive |-> alive, open_ports |-> <<>>, oid |-> oid]

NoWorker ==
    [pc |-> "none", targets |-> <<>>, ports |-> <<>>, i |-> 0, alive |-> <<>>,
     ti |-> 0, pi |-> 0, scanned |-> 0, hi |-> <<0, 0>>]

ScannerInitWith(h) ==
    /\ running = FALSE
    /\ stopEvent = FALSE
    /\ thread = 0
    /\ hosts = h
    /\ progress = ScanProgress(0, 0, 0, FALSE)
    /\ workers = [s \in Sessions |-> NoWorker]
    /\ nextSid = 1
    /\ callerPc = "idle"
    /\ ncalls = 0
    /\ lastOp = "init"
    /\ fired = {}
    /\ completeCount = [s \in Sessions |-> 0]
    /\ lastProgress = Emitted(ScanProgress(0, 0, 0, FALSE))
    /\ stopped = FALSE
    /\ cbRaised = FALSE

ScannerInit == ScannerInitWith(<<>>)

NoInput == [fn |-> "none"]

Init ==
    /\ ScannerInit
    /\ qin = NoInput
    /\ qout = NoResult
    /\ cbMode = FALSE
    /\ repeated = FALSE
    /\ xin = <<>>
    /\ xout = NoResult
    /\ pin = [scapy |-> FALSE, icmp |-> "silent", tcp |-> "refused"]
    /\ pout = NoResult

\* ------------------------------------------------------------ callbacks
\* whether the callback invoked by an _emit_* method raises
CallbackRaises == IF cbMode THEN BOOLEAN ELSE {FALSE}

\* start_scan / stop_scan calls one behaviour makes
CallLimit == IF cbMode \/ repeated THEN MaxCalls - 1 ELSE MaxCalls

\* ---------------------------------------------------------- dict helpers
HostIndex(h, ip) ==
    IF \E k \in 1..Len(h) : h[k].ip = ip
    THEN CHOOSE k \in 1..Len(h) : h[k].ip = ip
    ELSE 0

\* self.hosts[ip] = host_info
HostPut(h, rec) ==
    IF HostIndex(h, rec.ip) = 0 THEN Append(h, rec)
    ELSE [h EXCEPT ![HostIndex(h, rec.ip)] = rec]

RECURSIVE AliveHosts(_)
\* [ip for ip, host in self.hosts.items() if host.is_alive]
AliveHosts(h) ==
    IF h = <<>> THEN <<>>
    ELSE (IF Head(h).is_alive THEN <<Head(h).ip>> ELSE <<>>) \o AliveHosts(Tail(h))

\* host_info.open_ports.append(port) on the HostInfo object oid; an object
\* that is no longer in the dict changes nothing the table shows
AppendPort(h, oid, port) ==
    [k \in 1..Len(h) |->
        IF h[k].oid = oid THEN [h[k] EXCEPT !.open_ports = Append(@, port)] ELSE h[k]]

\* ------------------------------------------------------------- start_scan
AlreadyRunning_Ignored == FALSE

\* line 123: if self._running: return
AlreadyRunning == running

RejectedEvents_Error == {"on_error"}

\* line 124: a bare return, no _emit_error call before it
RejectedEvents == {}

StartScanBody(rs, ps) ==
    LET parsed == _parse_ip_ranges(rs)
        targets == parsed.targets
        ports == IF ps = NonePorts THEN common_ports ELSE ps
    IN IF AlreadyRunning
       THEN /\ lastOp' = "start_rejected"
            /\ fired' = RejectedEvents
            /\ cbRaised' = FALSE
            /\ UNCHANGED <<running, stopEvent, thread, hosts, progress, workers, nextSid,
                           lastProgress, stopped>>
       ELSE /\ running' = TRUE
            /\ stopEvent' = FALSE
            /\ hosts' = <<>>
            /\ stopped' = FALSE
            /\ IF targets = <<>>
               THEN /\ lastOp' = "start_empty"
                    /\ fired' = {"on_error"}
                    /\ cbRaised' \in CallbackRaises
                    /\ UNCHANGED <<thread, progress, workers, nextSid, lastProgress>>
               ELSE /\ progress' = ScanProgress(nextSid, Len(targets),
                                                Len(ports) * Len(targets), TRUE)
                    /\ workers' = [workers EXCEPT ![nextSid] =
                                      [NoWorker EXCEPT !.pc = "disc_check",
                                                       !.targets = targets,
                                                       !.ports = ports,
                                                       !.i = 1]]
                    /\ thread' = nextSid
                    /\ nextSid' = nextSid + 1
                    /\ lastOp' = "start_launched"
                    /\ fired' = IF parsed.errors > 0 THEN {"on_error"} ELSE {}
                    /\ cbRaised' \in (IF parsed.errors > 0 THEN CallbackRaises ELSE {FALSE})
                    /\ UNCHANGED lastProgress

start_scan ==
    /\ callerPc = "idle"
    /\ ncalls < CallLimit
    /\ ncalls' = ncalls + 1
    /\ \E in \in (IF repeated THEN RepeatedInputs ELSE ScanInputs) :
           StartScanBody(in.ranges, in.ports)
    /\ UNCHANGED <<callerPc, completeCount, cbMode, repeated, pureVars>>

\* -------------------------------------------------------------- stop_scan
NotRunning_Ignored == FALSE

\* line 159: if not self._running: return
NotRunning == ~running

RunningAfterStop_Kept == running

\* line 164: self._running = False
RunningAfterStop == FALSE

\* lines 170-171: progress.is_running = False; _emit_progress_update()
StopTail ==
    /\ progress' = [progress EXCEPT !.is_running = FALSE]
    /\ lastProgress' = Emitted(progress')
    /\ fired' = {"on_progress_update"}
    /\ cbRaised' \in CallbackRaises

stop_scan ==
    /\ callerPc = "idle"
    /\ ncalls < CallLimit
    /\ ncalls' = ncalls + 1
    /\ IF NotRunning
       THEN /\ lastOp' = "stop_noop"
            /\ fired' = {}
            /\ cbRaised' = FALSE
            /\ UNCHANGED <<running, stopEvent, thread, progress, callerPc, lastProgress, stopped>>
       ELSE /\ stopEvent' = TRUE
            /\ running' = RunningAfterStop
            /\ IF thread # 0
               THEN /\ callerPc' = "joining"
                    /\ lastOp' = "stop_join"
                    /\ fired' = {}
                    /\ cbRaised' = FALSE
                    /\ UNCHANGED <<thread, progress, lastProgress, stopped>>
               ELSE /\ StopTail
                    /\ stopped' = TRUE
                    /\ lastOp' = "stop_returned"
                    /\ UNCHANGED <<thread, callerPc>>
    /\ UNCHANGED <<hosts, workers, nextSid, completeCount, cbMode, repeated, pureVars>>

\* the worker is inside a network probe (or the callbacks after it)
Blocked(w) == workers[w].pc \in {"disc_probe", "port_probe"}

\* self._thread.join(timeout=5.0) returns: the thread ended, or 5 s passed
\* while the worker was blocked in a probe
stop_scan_join ==
    /\ callerPc = "joining"
    /\ \/ workers[thread].pc = "done"
       \/ Blocked(thread)
    /\ thread' = 0
    /\ StopTail
    /\ stopped' = TRUE
    /\ callerPc' = "idle"
    /\ lastOp' = "stop_returned"
    /\ UNCHANGED <<running, stopEvent, hosts, workers, nextSid, ncalls, completeCount,
                   cbMode, repeated, pureVars>>

\* ------------------------------------------------------------ scan worker
SetW(w, r) == [workers EXCEPT ![w] = r]

\* the worker has left the try block: its locals are dead
Ended(pc) == [NoWorker EXCEPT !.pc = pc]

ReturnOnStop_SkipsFinally == Ended("done")

\* lines 230-231: return inside try, the finally block still runs
ReturnOnStop == Ended("finally")

AfterCallback_Propagates(raised, rec) == IF raised THEN Ended("finally") ELSE rec

\* the worker after an _emit_* call returns: each of them wraps the callback
\* in try / except Exception and only logs (lines 373-376, 381-397, 402-405,
\* 411-414)
AfterCallback(raised, rec) == rec

OnWorkerException_ThreadDies == Ended("done")

\* lines 238-239, then the finally block
OnWorkerException == Ended("finally")

InnerStopCheck_Missing == FALSE

\* lines 336-337: if self._stop_event.is_set(): break
InnerStopCheck == stopEvent

\* _discover_hosts loop head (251-256) and, on loop exit, lines 230-236
DiscoverCheck(w) ==
    LET wk == workers[w]
        alive == AliveHosts(hosts)
    IN /\ wk.pc = "disc_check"
       /\ IF wk.i <= Len(wk.targets) /\ ~stopEvent
          THEN /\ progress' = [progress EXCEPT !.hosts_scanned = wk.i]
               /\ workers' = SetW(w, [wk EXCEPT !.pc = "disc_probe"])
          ELSE /\ UNCHANGED progress
               /\ workers' = SetW(w,
                    IF stopEvent THEN ReturnOnStop
                    ELSE IF alive # <<>> /\ wk.ports # <<>>
                    THEN [wk EXCEPT !.pc = "port_target", !.alive = alive, !.ti = 1]
                    ELSE Ended("finally"))
       /\ fired' = {}
       /\ cbRaised' = FALSE
       /\ UNCHANGED <<running, hosts, lastProgress, completeCount>>

\* lines 258-278: the probe returns, the record is stored, events are emitted
DiscoverProbe(w) ==
    LET wk == workers[w]
    IN /\ wk.pc = "disc_probe"
       /\ \E is_alive \in BOOLEAN :
            /\ progress' = [progress EXCEPT !.hosts_found = IF is_alive THEN @ + 1 ELSE @]
            /\ hosts' = HostPut(hosts, HostInfo(wk.targets[wk.i], is_alive, <<w, wk.i>>))
       /\ \E raised \in CallbackRaises :
            /\ cbRaised' = raised
            /\ workers' = SetW(w, AfterCallback(raised,
                              [wk EXCEPT !.pc = "disc_check", !.i = wk.i + 1]))
       /\ fired' = {"on_host_found", "on_progress_update"}
       /\ lastProgress' = Emitted(progress')
       /\ UNCHANGED <<running, completeCount>>

PortsDone_Hangs(wk) == wk

\* line 328 with the targets exhausted: _scan_ports returns, the try block of
\* _scan_worker ends (236-237) and the finally block runs
PortsDone(wk) == Ended("finally")

\* _scan_ports outer loop head (328-333)
PortTarget(w) ==
    LET wk == workers[w]
    IN /\ wk.pc = "port_target"
       /\ IF wk.ti > Len(wk.alive)
          THEN /\ workers' = SetW(w, PortsDone(wk))
               /\ fired' = {}
               /\ cbRaised' = FALSE
          ELSE IF stopEvent
          THEN /\ workers' = SetW(w, Ended("finally"))
               /\ fired' = {}
               /\ cbRaised' = FALSE
          ELSE IF HostIndex(hosts, wk.alive[wk.ti]) = 0
          THEN \* KeyError, caught at line 238: _emit_error
               /\ \E raised \in CallbackRaises :
                    /\ cbRaised' = raised
                    /\ workers' = SetW(w, AfterCallback(raised, OnWorkerException))
               /\ fired' = {"on_error"}
          ELSE /\ workers' = SetW(w, [wk EXCEPT !.pc = "port_check", !.pi = 1,
                              !.hi = hosts[HostIndex(hosts, wk.alive[wk.ti])].oid])
               /\ fired' = {}
               /\ cbRaised' = FALSE
       /\ UNCHANGED <<running, hosts, progress, lastProgress, completeCount>>

\* _scan_ports inner loop head (335-340)
PortCheck(w) ==
    LET wk == workers[w]
    IN /\ wk.pc = "port_check"
       /\ IF wk.pi > Len(wk.ports) \/ InnerStopCheck
          THEN /\ workers' = SetW(w, [wk EXCEPT !.pc = "port_target", !.ti = wk.ti + 1])
               /\ UNCHANGED progress
          ELSE /\ workers' = SetW(w, [wk EXCEPT !.pc = "port_probe",
                                                !.scanned = wk.scanned + 1])
               /\ progress' = [progress EXCEPT !.ports_scanned = wk.scanned + 1]
       /\ fired' = {}
       /\ cbRaised' = FALSE
       /\ UNCHANGED <<running, hosts, lastProgress, completeCount>>

\* lines 342-357: the port probe returns
PortProbe(w) ==
    LET wk == workers[w]
    IN /\ wk.pc = "port_probe"
       /\ \E is_open \in BOOLEAN :
            IF is_open
            THEN /\ hosts' = AppendPort(hosts, wk.hi, wk.ports[wk.pi])
                 /\ fired' = {"on_host_found", "on_progress_update"}
            ELSE /\ UNCHANGED hosts
                 /\ fired' = {"on_progress_update"}
       /\ \E raised \in CallbackRaises :
            /\ cbRaised' = raised
            /\ workers' = SetW(w, AfterCallback(raised,
                              [wk EXCEPT !.pc = "port_check", !.pi = wk.pi + 1]))
       /\ lastProgress' = Emitted(progress)
       /\ UNCHANGED <<running, progress, completeCount>>

Finally_KeepsRunning(w) ==
    LET wk == workers[w]
    IN /\ wk.pc = "finally"
       /\ lastProgress' = Emitted(progress)
       /\ fired' = {"on_progress_update"}
       /\ \E raised \in CallbackRaises :
            /\ cbRaised' = raised
            /\ workers' = SetW(w, AfterCallback(raised, Ended("complete")))
       /\ UNCHANGED <<running, progress, hosts, completeCount>>

\* finally, lines 241-244
Finally(w) ==
    LET wk == workers[w]
    IN /\ wk.pc = "finally"
       /\ running' = FALSE
       /\ progress' = [progress EXCEPT !.is_running = FALSE]
       /\ lastProgress' = Emitted(progress')
       /\ fired' = {"on_progress_update"}
       /\ \E raised \in CallbackRaises :
            /\ cbRaised' = raised
            /\ workers' = SetW(w, AfterCallback(raised, Ended("complete")))
       /\ UNCHANGED <<hosts, completeCount>>

Complete_ThenProgress(w) ==
    LET wk == workers[w]
    IN /\ wk.pc = "complete"
       /\ completeCount' = [completeCount EXCEPT ![w] = @ + 1]
       /\ fired' = {"on_scan_complete"}
       /\ cbRaised' = FALSE
       /\ workers' = SetW(w, Ended("finally"))
       /\ UNCHANGED <<running, hosts, progress, lastProgress>>

\* line 245: _emit_scan_complete, then the thread ends
Complete(w) ==
    LET wk == workers[w]
    IN /\ wk.pc = "complete"
       /\ completeCount' = [completeCount EXCEPT ![w] = @ + 1]
       /\ fired' = {"on_scan_complete"}
       /\ \E raised \in CallbackRaises :
            /\ cbRaised' = raised
            /\ workers' = SetW(w, AfterCallback(raised, Ended("done")))
       /\ UNCHANGED <<running, hosts, progress, lastProgress>>

_scan_worker(w) ==
    /\ \/ DiscoverCheck(w)
       \/ DiscoverProbe(w)
       \/ PortTarget(w)
       \/ PortCheck(w)
       \/ PortProbe(w)
       \/ Finally(w)
       \/ Complete(w)
    /\ lastOp' = "worker"
    /\ UNCHANGED <<stopEvent, thread, nextSid, callerPc, ncalls, stopped, cbMode, repeated,
                   pureVars>>

Next ==
    \/ start_scan
    \/ stop_scan
    \/ stop_scan_join
    \/ \E w \in Sessions : _scan_worker(w)

Spec == Init /\ [][Next]_vars

\* ----------------------------------- the scanner with callbacks that may raise
CallbackInit ==
    /\ ScannerInit
    /\ qin = NoInput
    /\ qout = NoResult
    /\ cbMode = TRUE
    /\ repeated = FALSE
    /\ xin = <<>>
    /\ xout = NoResult
    /\ pin = [scapy |-> FALSE, icmp |-> "silent", tcp |-> "refused"]
    /\ pout = NoResult

CallbackSpec == CallbackInit /\ [][Next]_vars

\* ------------------------- the scanner left alone, with probes that return
\* no stop_scan call is made
LiveNext ==
    \/ start_scan
    \/ \E w \in Sessions : _scan_worker(w)

\* every probe returns, and a thread that can run is scheduled: the sockets
\* have timeouts (295, 363) and the sleeps are finite (281, 346)
ProbesReturn == \A w \in Sessions : WF_vars(_scan_worker(w))

LiveSpec == Init /\ [][LiveNext]_vars /\ ProbesReturn

\* ------------------------------- the scanner given overlapping range lists
RepeatInit ==
    /\ ScannerInit
    /\ qin = NoInput
    /\ qout = NoResult
    /\ cbMode = FALSE
    /\ repeated = TRUE
    /\ xin = <<>>
    /\ xout = NoResult
    /\ pin = [scapy |-> FALSE, icmp |-> "silent", tcp |-> "refused"]
    /\ pout = NoResult

RepeatSpec == RepeatInit /\ [][Next]_vars

\* ------------------------------------------- the pure functions, on their own
PureInit ==
    /\ ScannerInit
    /\ qin = NoInput
    /\ qout = NoResult
    /\ cbMode = FALSE
    /\ repeated = FALSE
    /\ xin \in SpecLists
    /\ xout = NoResult
    /\ pin \in ProbeInputs
    /\ pout = NoResult

Expand ==
    /\ xout = NoResult
    /\ xout' = _parse_ip_ranges(xin)
    /\ UNCHANGED <<scanVars, xin, pin, pout, qin, qout>>

Ping ==
    /\ pout = NoResult
    /\ pout' = _ping_host(pin)
    /\ UNCHANGED <<scanVars, xin, xout, pin, qin, qout>>

PureNext ==
    \/ Expand
    \/ Ping

PureSpec == PureInit /\ [][PureNext]_vars

\* --------------------------------- one iteration of the scan loops, on its own
StepInit ==
    /\ ScannerInit
    /\ cbMode = FALSE
    /\ repeated = FALSE
    /\ xin = <<>>
    /\ xout = NoResult
    /\ pin \in ProbeInputs
    /\ pout = NoResult
    /\ qin \in StepInputs
    /\ qout = NoResult

ProbeStep ==
    /\ qin.fn = "probe"
    /\ qout = NoResult
    /\ qout' = ProbeResult(qin)
    /\ UNCHANGED <<scanVars, xin, xout, pin, pout, qin>>

PortStep ==
    /\ qin.fn = "port"
    /\ qout = NoResult
    /\ qout' = PortResult(qin)
    /\ UNCHANGED <<scanVars, xin, xout, pin, pout, qin>>

EtaStep ==
    /\ qin.fn = "eta"
    /\ qout = NoResult
    /\ qout' = _emit_progress_update(qin)
    /\ UNCHANGED <<scanVars, xin, xout, pin, pout, qin>>

StepNext ==
    \/ ProbeStep
    \/ PortStep
    \/ EtaStep
    \/ Ping

StepSpec == StepInit /\ [][StepNext]_vars

\* ------------------------------------------------ the queries, on their own
IsAlive(rec) == rec.is_alive

HasOpenPorts(rec) == rec.open_ports # <<>>

\* line 179: return self.hosts.copy()
get_results(h) == h

get_alive_hosts_Unfiltered(h) == h

\* line 183: [host for host in self.hosts.values() if host.is_alive]
get_alive_hosts(h) == SelectSeq(h, IsAlive)

\* line 187: [host for host in self.hosts.values() if host.open_ports]
get_hosts_with_open_ports(h) == SelectSeq(h, HasOpenPorts)

\* the host tables the queries are tried on: up to two records
HostRecs ==
    { [ip |-> a, is_alive |-> l, open_ports |-> ps, oid |-> <<1, a>>] :
        a \in 1..2, l \in BOOLEAN, ps \in {<<>>, <<80>>, <<443, 80>>} }

HostTables ==
    {<<>>} \cup { <<r>> : r \in HostRecs }
           \cup { <<r[1], r[2]>> : r \in { q \in HostRecs \X HostRecs : q[1].ip # q[2].ip } }

QueryInit ==
    /\ \E h \in HostTables : ScannerInitWith(h)
    /\ cbMode = FALSE
    /\ repeated = FALSE
    /\ xin = <<>>
    /\ xout = NoResult
    /\ pin = [scapy |-> FALSE, icmp |-> "silent", tcp |-> "refused"]
    /\ pout = NoResult
    /\ qin = NoInput
    /\ qout = NoResult

QueryResults ==
    /\ qout' = [fn |-> "get_results", ret |-> get_results(hosts)]
    /\ UNCHANGED <<scanVars, xin, xout, pin, pout, qin>>

QueryAlive ==
    /\ qout' = [fn |-> "get_alive_hosts", ret |-> get_alive_hosts(hosts)]
    /\ UNCHANGED <<scanVars, xin, xout, pin, pout, qin>>

QueryOpenPorts ==
    /\ qout' = [fn |-> "get_hosts_with_open_ports",
                ret |-> get_hosts_with_open_ports(hosts)]
    /\ UNCHANGED <<scanVars, xin, xout, pin, pout, qin>>

QueryNext ==
    \/ QueryResults
    \/ QueryAlive
    \/ QueryOpenPorts

QuerySpec == QueryInit /\ [][QueryNext]_vars

\* ------------------------------------------------------------ properties
Launched(s) == workers[s].pc # "none"
Ended_(s) == workers[s].pc = "done"
Active(s) == workers[s].pc \notin {"none", "complete", "done"}

\* C1: every launched worker invokes on_scan_complete exactly once: a worker
\* that has ended has invoked it once, whichever way it left the scan, and a
\* worker that has not ended has not invoked it yet.
C1_CompleteExactlyOnce ==
    \A s \in Sessions :
        /\ completeCount[s] <= 1
        /\ Ended_(s) <=> completeCount[s] = 1

\* a session ended by stop_scan has delivered its completion event
C1_Witness ==
    /\ stopped
    /\ \E s \in Sessions : Ended_(s) /\ completeCount[s] = 1
    /\ \A s \in Sessions : ~Active(s)

\* C2: a start_scan whose ranges expand to no target fires on_error and no
\* other callback, and is_running() is False when it has returned.
C2_EmptyStartStaysIdle ==
    lastOp = "start_empty" => (fired = {"on_error"} /\ ~running)

\* C3: a start_scan call made while is_running() is True changes neither the
\* host table, the progress, the cancellation flag, the running flag nor any
\* worker, and launches no worker.
C3_StartWhileRunningNoEffect ==
    [][(start_scan /\ running) =>
         UNCHANGED <<hosts, progress, stopEvent, running, workers, thread, nextSid>>]_vars

\* a start_scan was rejected while a worker was scanning
C3_Witness ==
    lastOp = "start_rejected" /\ \E s \in Sessions : Active(s)

\* C4: a stop_scan call made while is_running() is False leaves is_running(),
\* the host table, the progress and the cancellation flag as they were and
\* invokes no callback.
C4_StopWhileIdleNoEffect ==
    [][(stop_scan /\ ~running) =>
         (~running' /\ fired' = {} /\ UNCHANGED <<hosts, progress, stopEvent, lastProgress,
                                                  completeCount, workers>>)]_vars

\* a stop_scan was ignored after a scan had run
C4_Witness ==
    lastOp = "stop_noop" /\ ~running /\ hosts # <<>>

\* C5: once stop_scan has returned from stopping a running scan, is_running()
\* is False, and it stays False until start_scan is called again, also when
\* the join timed out and the worker is still alive.
C5_StoppedNotRunning ==
    stopped => ~running

\* stop_scan has returned although the worker it waited for is still scanning
C5_Witness ==
    stopped /\ ~running /\ \E s \in Sessions : Active(s)

\* C6: whenever a worker is about to invoke on_scan_complete, is_running() and
\* progress.is_running are False.
C6_IdleAtComplete ==
    \A s \in Sessions :
        workers[s].pc = "complete" => (~running /\ ~progress.is_running)

\* C6 as amended: the worker has set _running and progress.is_running to False
\* when it reaches the on_scan_complete call, and from then until the call
\* only a start_scan call sets either of them again.
C6_IdleBeforeComplete ==
    [][\A s \in Sessions :
         /\ (workers[s].pc # "complete" /\ workers'[s].pc = "complete")
               => (~running' /\ ~progress'.is_running)
         /\ (workers[s].pc = "complete"
               /\ ((~running /\ running') \/ (~progress.is_running /\ progress'.is_running)))
               => start_scan]_vars

\* a worker is about to invoke on_scan_complete and the scanner is idle
C6_Witness ==
    \E s \in Sessions : workers[s].pc = "complete" /\ ~running /\ ~progress.is_running

\* C7: no record of the host table has open ports while it is not alive.
C7_OpenPortsOnlyWhenAlive ==
    \A k \in 1..Len(hosts) : hosts[k].open_ports # <<>> => hosts[k].is_alive

\* C8: successive ScanProgress values handed to on_progress_update for one
\* scan have non-decreasing hosts_scanned and ports_scanned.
C8_ProgressEventsMonotonic ==
    [][lastProgress'.gen = lastProgress.gen =>
         /\ lastProgress'.hosts_scanned >= lastProgress.hosts_scanned
         /\ lastProgress'.ports_scanned >= lastProgress.ports_scanned]_vars

\* C9: hosts_scanned never exceeds hosts_total, ports_scanned never exceeds
\* ports_total.
C9_ScannedWithinTotal ==
    /\ progress.hosts_scanned <= progress.hosts_total
    /\ progress.ports_scanned <= progress.ports_total

\* C10: the open_ports list of every record is strictly ascending (sorted and
\* without duplicates).
C10_OpenPortsSortedUnique ==
    \A k \in 1..Len(hosts) :
        \A a, b \in 1..Len(hosts[k].open_ports) :
            a < b => hosts[k].open_ports[a] < hosts[k].open_ports[b]

\* C12: while a launched scan is under way the host table holds no record
\* for an address that is not among that scan's targets.
C12_TableWithinTargets ==
    \A s \in Sessions :
        (progress.gen = s /\ workers[s].targets # <<>>) =>
            \A k \in 1..Len(hosts) :
                \E t \in 1..Len(workers[s].targets) : hosts[k].ip = workers[s].targets[t]

\* worker w takes the step
Steps(w) == workers'[w] # workers[w]

\* C17: a callback that raises does not change the course of the scan: after
\* the step in which it raised the worker is where it would be anyway, at the
\* next target or port, past the finally block with the scanner not running,
\* or ended with on_scan_complete invoked.
C17_CallbackErrorContained ==
    [][\A w \in Sessions :
        (cbRaised' /\ Steps(w)) =>
            /\ workers[w].pc = "disc_probe" =>
                  /\ workers'[w].pc = "disc_check"
                  /\ workers'[w].i = workers[w].i + 1
                  /\ workers'[w].targets = workers[w].targets
            /\ workers[w].pc = "port_probe" =>
                  /\ workers'[w].pc = "port_check"
                  /\ workers'[w].pi = workers[w].pi + 1
                  /\ workers'[w].ports = workers[w].ports
            /\ workers[w].pc = "port_target" => workers'[w].pc = "finally"
            /\ workers[w].pc = "finally" => (workers'[w].pc = "complete" /\ ~running')
            /\ workers[w].pc = "complete" =>
                  /\ workers'[w].pc = "done"
                  /\ completeCount'[w] = completeCount[w] + 1]_vars

C17_Witness ==
    /\ cbRaised
    /\ lastOp = "worker"
    /\ \E w \in Sessions :
        /\ workers[w].pc = "disc_check"
        /\ workers[w].i = 2
        /\ Len(workers[w].targets) = 2

\* self.hosts[target] at line 333 is about to raise KeyError in worker w
KeyErrorAt(w) ==
    /\ workers[w].pc = "port_target"
    /\ workers[w].ti <= Len(workers[w].alive)
    /\ ~stopEvent
    /\ HostIndex(hosts, workers[w].alive[workers[w].ti]) = 0

\* C18: an exception inside the worker's phases is reported through on_error
\* and the session still ends: the worker goes on to the finally block, which
\* sets the scanner not running, and then invokes on_scan_complete once.
C18_WorkerExceptionEndsSession ==
    [][\A w \in Sessions :
        IF Steps(w)
        THEN /\ (workers[w].pc = "port_target" /\ KeyErrorAt(w)) =>
                   (fired' = {"on_error"} /\ workers'[w].pc = "finally")
             /\ workers[w].pc = "finally" =>
                   (~running' /\ workers'[w].pc = "complete")
             /\ workers[w].pc = "complete" =>
                   (completeCount[w] = 0 /\ completeCount'[w] = 1 /\ workers'[w].pc = "done")
        ELSE completeCount'[w] = completeCount[w]]_vars

C18_Witness ==
    /\ lastOp = "worker"
    /\ fired = {"on_error"}
    /\ \E w \in Sessions : workers[w].pc = "finally"

\* C19: while the cancellation flag is set a worker admits no new host probe
\* and no new port probe and leaves its loops: from a loop head it goes only
\* towards the finally block, and from discovery never into the port phase.
C19_NoNewProbeAfterStop ==
    [][\A w \in Sessions :
        (stopEvent /\ Steps(w)) =>
            /\ workers'[w].pc \notin {"disc_probe", "port_probe"}
            /\ workers[w].pc = "disc_check" => workers'[w].pc = "finally"
            /\ workers[w].pc = "disc_probe" => workers'[w].pc = "disc_check"
            /\ workers[w].pc = "port_check" => workers'[w].pc = "port_target"
            /\ workers[w].pc = "port_target" => workers'[w].pc = "finally"]_vars

C19_Witness ==
    /\ stopEvent
    /\ lastOp = "worker"
    /\ \E w \in Sessions :
        /\ workers[w].pc = "port_target"
        /\ workers[w].pi <= Len(workers[w].ports)

\* C22: a start_scan that finds no targets leaves the host table and the
\* progress of the previous scan as they were.
C22_EmptyStartResetsNothing ==
    [][(start_scan /\ lastOp' = "start_empty") => UNCHANGED <<hosts, progress>>]_vars

Scanning(s) ==
    workers[s].pc \in {"disc_check", "disc_probe", "port_target", "port_check", "port_probe"}

InPortPhase(s) == workers[s].pc \in {"port_target", "port_check", "port_probe"}

\* C24: once the worker of the current scan is in the port phase,
\* progress.ports_total is (hosts found alive) x (ports to scan).
C24_PortsTotalAfterDiscovery ==
    \A s \in Sessions :
        (progress.gen = s /\ InPortPhase(s)) =>
            progress.ports_total = Len(workers[s].alive) * Len(workers[s].ports)

\* C28: at most one worker is inside the scan loops at any time.
C28_OneWorkerScanning ==
    \A s, t \in Sessions : (Scanning(s) /\ Scanning(t)) => s = t

\* C29: while the worker of the most recent start_scan is scanning and the
\* cancellation flag has not been set since that start, is_running() is True.
C29_CurrentSessionRunning ==
    \A s \in Sessions :
        (thread = s /\ progress.gen = s /\ Scanning(s) /\ ~stopEvent) => running

\* C30: when no worker is alive is_running() is False, so that the next
\* start_scan is not rejected.
C30_NeverWedged ==
    (\A s \in Sessions : workers[s].pc \in {"none", "done"}) => ~running

\* C31: while a worker is in a port probe of an address, the record the host
\* table holds for that address, if any, is alive: an address found dead is
\* not port-scanned.
C31_PortProbeOnlyIfAlive ==
    \A s \in Sessions :
        workers[s].pc = "port_probe" =>
            \A k \in 1..Len(hosts) :
                hosts[k].ip = workers[s].alive[workers[s].ti] => hosts[k].is_alive

\* the records of the host table stored by worker s
RecordsOf(s) == { k \in 1..Len(hosts) : hosts[k].oid[1] = s }

\* C32: while the worker of the current scan is in discovery, hosts_scanned is
\* the number of its probes whose result is recorded.
C32_ScannedCountsRecorded ==
    \A s \in Sessions :
        (progress.gen = s /\ workers[s].pc \in {"disc_check", "disc_probe"}) =>
            progress.hosts_scanned = Cardinality(RecordsOf(s))

ProgressEvents == {"on_host_found", "on_progress_update"}

\* C33 (as stated): once on_scan_complete was invoked for the current session,
\* no step other than a start_scan invokes on_host_found or on_progress_update.
C33_CompleteIsLastEvent ==
    [][\A s \in Sessions :
        (progress.gen = s /\ completeCount[s] >= 1 /\ ~start_scan) =>
            fired' \cap ProgressEvents = {}]_vars

\* C33 (amended): a worker that has invoked on_scan_complete takes no further
\* step, so it invokes no further callback; an on_progress_update that
\* follows comes from stop_scan or from another worker.
C33_WorkerSilentAfterComplete ==
    [][\A s \in Sessions :
        completeCount[s] >= 1 =>
            /\ ~Steps(s)
            /\ (fired' \cap ProgressEvents # {}) =>
                  (lastOp' = "stop_returned" \/ \E t \in Sessions \ {s} : Steps(t))]_vars

C33_Witness ==
    /\ lastOp = "stop_returned"
    /\ fired = {"on_progress_update"}
    /\ progress.gen \in Sessions
    /\ completeCount[progress.gen] = 1
    /\ \A s \in Sessions : ~Active(s)

\* C34: when a scan has ended, progress.hosts_found equals the number of
\* records of the host table with is_alive = True, also for range lists whose
\* specs overlap or repeat.
C34_FoundEqualsAliveRecords ==
    \A s \in Sessions :
        (progress.gen = s /\ Ended_(s)) =>
            progress.hosts_found = Cardinality({ k \in 1..Len(hosts) : hosts[k].is_alive })

\* C36: with probes that return and no stop_scan call, every launched scan
\* terminates: its worker reaches the finally block, where is_running()
\* becomes False, and ends having delivered on_scan_complete once.
C36_ScanTerminates ==
    \A s \in Sessions :
        /\ Active(s) ~> (workers[s].pc = "complete" /\ ~running)
        /\ Launched(s) ~> (Ended_(s) /\ completeCount[s] = 1)

C36_Witness ==
    \E s \in Sessions :
        /\ Ended_(s) /\ completeCount[s] = 1
        /\ progress.gen = s /\ progress.ports_scanned > 0
        /\ ~running /\ ~stopEvent /\ ~stopped

\* C37: each call of _emit_progress_update produces a progress event; its
\* estimated_remaining is (total - done) / (done / elapsed) when done > 0 and
\* elapsed > 0 and is 0 otherwise, also for a unit completed at elapsed = 0;
\* the estimate is never negative.
C37_EstimatedRemaining ==
    (qin.fn = "eta" /\ qout # NoResult) =>
        LET done == qin.hosts_scanned + qin.ports_scanned
            total == qin.hosts_total + qin.ports_total
            est == qout.estimated_remaining
        IN /\ qout.invoked
           /\ IF done > 0 /\ qin.elapsed > 0
              THEN est.num * done = (total - done) * qin.elapsed * est.den
              ELSE est.num = 0
           /\ est.num * est.den >= 0

\* C35: when the worker of the current scan has ended and the cancellation
\* flag was not set, done work equals total work.
C35_DoneEqualsTotal ==
    \A s \in Sessions :
        (progress.gen = s /\ Ended_(s) /\ ~stopEvent) =>
            /\ progress.hosts_scanned = progress.hosts_total
            /\ progress.ports_scanned = progress.ports_total

\* ------------------------------------------------ claims on range expansion
NoDuplicates(s) == \A i, j \in 1..Len(s) : s[i] = s[j] => i = j

Malformed(r) == r.kind = "bad"

WellFormed(r) == ~Malformed(r)

Reversed(r) == r.kind = "range" /\ r.a > r.b

Expanded == xout # NoResult

\* C11: the target list produced by range expansion contains each address
\* at most once.
C11_TargetsUnique == Expanded => NoDuplicates(xout.targets)

\* C13: on_error is invoked once for each malformed spec of the list, and the
\* result is the expansion of the well-formed specs in input order.
C13_MalformedSkipped ==
    Expanded =>
        /\ xout.errors = Len(SelectSeq(xin, Malformed))
        /\ xout.targets = ParseTargets(SelectSeq(xin, WellFormed))

\* C14: a range spec ip1-ip2 with ip1 > ip2 contributes no targets and is
\* reported through on_error.
C14_ReversedRangeIsError ==
    (Expanded /\ Len(xin) = 1 /\ Reversed(xin[1])) =>
        (xout.targets = <<>> /\ xout.errors = 1)

\* the block of a CIDR spec: the addresses that share its network bits
Block(c) ==
    LET n == Pow2(AddrBits - c.b)
        net == CHOOSE m \in 0..MaxAddr : m % n = 0 /\ m <= c.a /\ c.a < m + n
    IN net..(net + n - 1)

Lowest(S) == CHOOSE x \in S : \A y \in S : x <= y

Highest(S) == CHOOSE x \in S : \A y \in S : y <= x

Ascending(s) == \A i, j \in 1..Len(s) : i < j => s[i] < s[j]

SeqSet(s) == { s[k] : k \in 1..Len(s) }

\* C15: a CIDR spec expands to its block without the network and broadcast
\* addresses when the block has more than 2 addresses, and to the whole block
\* when it has 1 or 2 (/31, /32).
C15_CidrHosts ==
    (Expanded /\ Len(xin) = 1 /\ xin[1].kind = "cidr") =>
        LET B == Block(xin[1])
        IN /\ Ascending(xout.targets)
           /\ SeqSet(xout.targets) =
                  IF Cardinality(B) > 2 THEN B \ {Lowest(B), Highest(B)} ELSE B
           /\ xout.errors = 0

C15_Witness ==
    Expanded /\ xin = <<Cidr(5, AddrBits - 2)>> /\ xout.targets = <<5, 6>>

\* C16: a range spec ip1-ip2 with ip1 <= ip2 expands to ip1..ip2 inclusive,
\* ascending, each address once; a single-address spec to that address.
C16_RangeInclusive ==
    (Expanded /\ Len(xin) = 1) =>
        /\ (xin[1].kind = "range" /\ xin[1].a <= xin[1].b) =>
              xout.targets = [k \in 1..(xin[1].b - xin[1].a + 1) |-> xin[1].a + k - 1]
        /\ xin[1].kind = "single" => xout.targets = <<xin[1].a>>

C16_Witness ==
    Expanded /\ xin = <<Range(MaxAddr - 1, MaxAddr)>>
             /\ xout.targets = <<MaxAddr - 1, MaxAddr>>

\* ------------------------------------------------------ claims on the prober
Probed == pout # NoResult

Stepped == qout # NoResult

\* C21: with use_simulation = False no liveness and no port result is a
\* simulated one, whatever SCAPY_AVAILABLE is.
C21_SimulationOnlyWhenEnabled ==
    (Stepped /\ ~qin.use_simulation) => ~qout.simulated

\* C25: a host found not alive has no response time, whichever strategy or
\* the simulation produced the result.
C25_ResponseTimeOnlyWhenAlive ==
    /\ (Stepped /\ qin.fn = "probe") => (qout.has_response_time => qout.is_alive)
    /\ Probed => (pout.has_response_time => pout.is_alive)

C25_Witness ==
    /\ Stepped /\ qin.fn = "probe" /\ qout.simulated
    /\ ~qout.is_alive /\ ~qout.has_response_time
    /\ Probed /\ ~pout.is_alive /\ pin.tcp = "refused"

\* C26: a real port probe never raises and is never retried: open exactly
\* when the connect succeeded, one connect per probe (none only when no
\* socket could be created).
C26_PortProbeOnceNoRaise ==
    (Stepped /\ qin.fn = "port" /\ ~qout.simulated) =>
        /\ ~qout.raised
        /\ qout.is_open <=> qin.connect = "connected"
        /\ qout.attempts <= 1
        /\ qin.connect # "no_socket" => qout.attempts = 1

C26_Witness ==
    /\ Stepped /\ qin.fn = "port" /\ ~qout.simulated
    /\ qin.connect = "timeout" /\ ~qout.is_open /\ qout.attempts = 1

\* --------------------------------------------------- claims on the queries
\* ret holds exactly the records of h that satisfy the filter, each once
ExactlyThose(ret, h, S) ==
    /\ \A k \in 1..Len(ret) : ret[k] \in S
    /\ \A r \in S : \E k \in 1..Len(ret) : ret[k] = r
    /\ Len(ret) = Cardinality(S)

Records(h) == { h[k] : k \in 1..Len(h) }

\* C27: get_results returns every record, get_alive_hosts the records with
\* is_alive, get_hosts_with_open_ports the records with open ports, and a
\* query leaves the table, the progress and the running state alone.
C27_QueriesArePure ==
    [][qout' # qout =>
        /\ UNCHANGED <<hosts, progress, running>>
        /\ qout'.fn = "get_results" => ExactlyThose(qout'.ret, hosts, Records(hosts))
        /\ qout'.fn = "get_alive_hosts" =>
              ExactlyThose(qout'.ret, hosts, { r \in Records(hosts) : r.is_alive })
        /\ qout'.fn = "get_hosts_with_open_ports" =>
              ExactlyThose(qout'.ret, hosts,
                           { r \in Records(hosts) : Len(r.open_ports) > 0 })]_vars

C27_Witness ==
    /\ Len(hosts) = 2
    /\ hosts[1].is_alive /\ hosts[1].open_ports = <<443, 80>>
    /\ ~hosts[2].is_alive /\ hosts[2].open_ports = <<>>
    /\ qout # NoResult
    /\ qout.fn = "get_alive_hosts"
    /\ qout.ret = <<hosts[1]>>

====
